---- MODULE Spec2Model ----
(***************************************************************************)
(* MedChain ledger simulator (scripts/blockchain_simulator.py).            *)
(*                                                                         *)
(* The ledger owns a chain of blocks, a pending pool of transactions and   *)
(* a world state.  Python dict objects (payloads, transactions, world      *)
(* state records) are mutable and are held by reference, so they live in   *)
(* an explicit heap and the ledger's containers hold addresses into it.    *)
(***************************************************************************)
EXTENDS Integers, Sequences, FiniteSets, TLC

(***************************************************************************)
(* Bounds of the model.                                                    *)
(***************************************************************************)
\* Transactions one ledger accepts in a run.
MaxTxs == 2
\* Blocks the chain grows to under parallel callers, the genesis block included.
MaxChain == 3
\* Last reading of the millisecond clock.
MaxClock == 1
\* Clock ticks per second (1000 in the program, scaled down).
MsPerSecond == 1
\* Number of digit values of a digest character (16 for hexdigest, scaled down).
DigitBase == 4
\* Characters of a block digest (64 for sha256().hexdigest(), scaled down).
HashLen == 4
\* Number of values of the 8-character md5 prefix in a transaction id (scaled down).
IdSpace == 64
\* An iteration guard for the proof-of-work search (the one the code lacks).
MaxIterations == 4
\* Writes a caller makes to the values the view methods returned.
MaxMutations == 1

(***************************************************************************)
(* Program constants.                                                      *)
(***************************************************************************)
DIFFICULTY == 2

\* Arguments the callers draw from (the values of _demo).
BatchIds == {"batch001", "batch002"}
DrugNames == {"Paracetamol"}
Manufacturers == {"Acme Pharma"}
Quantities == {1000}
Statuses == {"pending", "waiting"}

VARIABLES
    chain,                  \* self.chain: sequence of Block
    pending_transactions,   \* self.pending_transactions: sequence of transaction addresses
    world_state,            \* self.world_state: batch_id -> address of its record
    heap,                   \* the dict objects: payloads, transactions, world state records
    clock,                  \* the system clock, in milliseconds
    call,                   \* the last call made on the ledger and its outcome
    sealed_calls,           \* number of mine() calls made with a non-empty pending pool
    accepted,               \* addresses of the transactions whose submission has returned
    pc,                     \* per thread: the statement it is about to execute
    frame,                  \* per thread: the local variables of its call
    chain_view,             \* the blockchain_view() result the caller holds: the summaries
    state_view,             \* the world_state_view() result the caller holds: batch_id -> record
    caller_heap,            \* the record dicts that world_state_view() made for the caller
    mutations               \* number of writes the caller made to values it was returned

\* What the caller holds.
caller == <<chain_view, state_view, caller_heap, mutations>>

vars == <<chain, pending_transactions, world_state, heap, clock, call, sealed_calls,
          accepted, pc, frame, caller>>

\* The threads that call the ledger in parallel.
Threads == {"t1", "t2"}

(***************************************************************************)
(* Time.                                                                   *)
(***************************************************************************)
\* utc_iso(): the clock, at a precision of one second.
utc_iso(c) == c \div MsPerSecond

(***************************************************************************)
(* Canonical serialization and digests.                                    *)
(***************************************************************************)
RECURSIVE Pow(_, _)
Pow(b, e) == IF e = 0 THEN 1 ELSE b * Pow(b, e - 1)

\* Number of distinct block digests.
Modulus == Pow(DigitBase, HashLen)
\* Digests below Window begin with DIFFICULTY zero characters.
Window == Pow(DigitBase, HashLen - DIFFICULTY)
\* Multiplier of the digest: coprime to Modulus.
Multiplier == Window - 1

\* The characters of a string, as a number.
StrCode ==
    [s \in {"batch001", "batch002", "Paracetamol", "Acme Pharma", "pending",
            "waiting", "CREATE_BATCH", "UPDATE_STATUS", "batch_id", "drug_name",
            "manufacturer", "quantity", "status", "timestamp"} |->
        CASE s = "batch001" -> 1
          [] s = "batch002" -> 2
          [] s = "Paracetamol" -> 3
          [] s = "Acme Pharma" -> 4
          [] s = "pending" -> 5
          [] s = "waiting" -> 6
          [] s = "CREATE_BATCH" -> 7
          [] s = "UPDATE_STATUS" -> 8
          [] s = "batch_id" -> 9
          [] s = "drug_name" -> 10
          [] s = "manufacturer" -> 11
          [] s = "quantity" -> 12
          [] s = "status" -> 13
          [] s = "timestamp" -> 14]

\* The keys a payload or record may hold, in sort_keys order.
SortedKeys == <<"batch_id", "drug_name", "manufacturer", "quantity", "status", "timestamp">>

\* A value as serialized: numbers as they are, strings by their characters.
ValueCode(key, v) == IF key \in {"quantity", "timestamp"} THEN v ELSE StrCode[v]

\* json.dumps(d, sort_keys=True) of a flat dict: key, value, key, value ...
RECURSIVE DumpDict(_, _)
DumpDict(d, i) ==
    IF i > Len(SortedKeys) THEN <<>>
    ELSE LET key == SortedKeys[i]
         IN  (IF key \in DOMAIN d THEN <<StrCode[key], ValueCode(key, d[key])>> ELSE <<>>)
             \o DumpDict(d, i + 1)

\* A digest function: a weighted sum of the serialized tokens.
RECURSIVE DigestFrom(_, _, _, _)
DigestFrom(tokens, i, mult, modulus) ==
    IF i > Len(tokens) THEN 1
    ELSE (tokens[i] + 1 + mult * DigestFrom(tokens, i + 1, mult, modulus)) % modulus

Digest(tokens, mult, modulus) == DigestFrom(tokens, 1, mult, modulus)

\* hexdigest(): the digest as HashLen characters, most significant first.
PlaceValue == [i \in 1..HashLen |-> Pow(DigitBase, HashLen - i)]

HexDigest(n) == [i \in 1..HashLen |-> (n \div PlaceValue[i]) % DigitBase]

\* json.dumps of one transaction (keys sorted: payload, timestamp, tx_id, type),
\* the payload read from the heap as it is now.
DumpTx(h, t) ==
    DumpDict(h[h[t].payload], 1) \o <<h[t].timestamp>> \o h[t].tx_id \o <<StrCode[h[t].type]>>

\* json.dumps of a list of transactions, from the i-th on.
RECURSIVE DumpTxsFrom(_, _, _)
DumpTxsFrom(h, txs, i) ==
    IF i > Len(txs) THEN <<>> ELSE DumpTx(h, txs[i]) \o DumpTxsFrom(h, txs, i + 1)

DumpTxs(h, txs) == DumpTxsFrom(h, txs, 1)

\* A digest string as serialized.
RECURSIVE DumpHash(_)
DumpHash(s) == IF s = <<>> THEN 0 ELSE Head(s) + DigitBase * DumpHash(Tail(s))

\* The digest of the serialized block from previous_hash on: the part of the
\* serialization (keys sorted: index, nonce, previous_hash, timestamp, transactions)
\* that follows the nonce.
TailDigest(h, b) ==
    Digest(<<DumpHash(b.previous_hash), b.timestamp, Len(b.transactions)>>
               \o DumpTxs(h, b.transactions),
           Multiplier, Modulus)

\* sha256(...).hexdigest() of the serialized block: the digest of index and nonce
\* followed by the rest, whose digest is tail.
HashFields(b, tail) ==
    HexDigest((b.index + 1 + Multiplier * ((b.nonce + 1 + Multiplier * tail) % Modulus))
                  % Modulus)

\* Block._calculate_hash
_calculate_hash(h, b) == HashFields(b, TailDigest(h, b))

\* "0" * n
Zeros(n) == [i \in 1..n |-> 0]

\* str.startswith
StartsWith(s, prefix) == Len(prefix) <= Len(s) /\ SubSeq(s, 1, Len(prefix)) = prefix

(***************************************************************************)
(* Block.                                                                  *)
(***************************************************************************)
\* Block.__init__
NewBlock(h, index, transactions, previous_hash, now) ==
    LET b == [index |-> index, timestamp |-> utc_iso(now), transactions |-> transactions,
              previous_hash |-> previous_hash, nonce |-> 0, hash |-> <<>>]
    IN  [b EXCEPT !.hash = _calculate_hash(h, b)]

\* Block.mine: the proof-of-work loop.  The loop changes nonce and hash only, so
\* the digest of the fields after the nonce is the same at every turn and is
\* passed along.
RECURSIVE MineLoop(_, _)
MineLoop(b, tail) ==
    IF StartsWith(b.hash, Zeros(DIFFICULTY)) THEN b
    ELSE LET b1 == [b EXCEPT !.nonce = b.nonce + 1]
         IN  MineLoop([b1 EXCEPT !.hash = HashFields(b1, tail)], tail)

\* As BlockMine, with the loop body run once before the first test (do ... while),
\* so that nonce 0 is never tested.
BlockMineFromOne(h, b) ==
    LET b1 == [b EXCEPT !.nonce = b.nonce + 1]
    IN  MineLoop([b1 EXCEPT !.hash = HashFields(b1, TailDigest(h, b))], TailDigest(h, b))

BlockMine(h, b) == MineLoop(b, TailDigest(h, b))

(***************************************************************************)
(* Ledger: constructor.                                                    *)
(***************************************************************************)
\* As _create_genesis_block, with the genesis.mine() call left out.
GenesisNotMined(h, now) == <<NewBlock(h, 0, <<>>, Zeros(HashLen), now)>>

\* MedChainBlockchain._create_genesis_block: the chain after it.
_create_genesis_block(h, now) ==
    <<BlockMine(h, NewBlock(h, 0, <<>>, Zeros(HashLen), now))>>

\* The record of a call: the operation, its batch_id argument, what it returned or
\* raised.  flip changes at every call, so that a call is told from a clock tick.
CallRecord(op, batch_id, ret, raised) ==
    [op |-> op, batch_id |-> batch_id, ret |-> ret, raised |-> raised, flip |-> 1 - call.flip]

\* The locals of a thread that is in no call.
NoFrame ==
    [batch_id |-> "", status |-> "", tx |-> 0, index |-> 0, transactions |-> <<>>,
     new_block |-> [index |-> 0, timestamp |-> 0, transactions |-> <<>>,
                    previous_hash |-> <<>>, nonce |-> 0, hash |-> <<>>]]

\* MedChainBlockchain.__init__
Init ==
    /\ clock \in 0..MaxClock
    /\ heap = <<>>
    /\ pending_transactions = <<>>
    /\ world_state = <<>>
    /\ chain = _create_genesis_block(heap, clock)
    /\ call = [op |-> "__init__", batch_id |-> "", ret |-> <<>>, raised |-> "none", flip |-> 0]
    /\ sealed_calls = 0
    /\ accepted = {}
    /\ pc = [t \in Threads |-> "idle"]
    /\ frame = [t \in Threads |-> NoFrame]
    /\ chain_view = <<>>
    /\ state_view = <<>>
    /\ caller_heap = <<>>
    /\ mutations = 0

(***************************************************************************)
(* Ledger: helpers.                                                        *)
(***************************************************************************)
\* A transaction dict is one that holds a tx_id.
IsTx(d) == "tx_id" \in DOMAIN d

\* Transactions created so far.
TxCount == Cardinality({a \in DOMAIN heap : IsTx(heap[a])})

\* {**d, key: v}: a new dict.
With(d, key, v) == [f \in DOMAIN d \cup {key} |-> IF f = key THEN v ELSE d[f]]

\* As Put, with the assignment left out.
PutNothing(m, key, v) == m

\* m[key] = v on a mapping.
Put(m, key, v) == [k \in DOMAIN m \cup {key} |-> IF k = key THEN v ELSE m[k]]

\* MedChainBlockchain._new_tx: the transaction dict for the payload at address pa;
\* ms is time.time() in milliseconds, now the clock when utc_iso() is read.
_new_tx(h, tx_type, pa, ms, now) ==
    [tx_id |-> <<ms, Digest(DumpDict(h[pa], 1), 5, IdSpace)>>,
     type |-> tx_type,
     payload |-> pa,
     timestamp |-> utc_iso(now)]

\* As NewRecord, with the payload dict itself stored as the record:
\* payload["timestamp"] = ts; world_state[batch_id] = payload.
NewRecordShared(h, pa, ts) == <<[h EXCEPT ![pa] = With(h[pa], "timestamp", ts)], pa>>

\* The world state record of a new batch: a fresh dict {**payload, "timestamp": ts}.
\* Gives the heap with the record in it and the record's address.
NewRecord(h, pa, ts) == <<Append(h, With(h[pa], "timestamp", ts)), Len(h) + 1>>

\* As SetStatus, with the record replaced by a new dict of the update's fields
\* (world_state[batch_id] = {**payload, "timestamp": ts}, as a create does).
SetStatusReplacingRecord(h, ra, status, ts) ==
    [h EXCEPT ![ra] = [batch_id |-> h[ra].batch_id, status |-> status, timestamp |-> ts]]

\* As SetStatus, with the assignment of "timestamp" left out.
SetStatusOnly(h, ra, status, ts) ==
    [h EXCEPT ![ra] = With(h[ra], "status", status)]

\* world_state[batch_id]["status"] = status; world_state[batch_id]["timestamp"] = ts
SetStatus(h, ra, status, ts) ==
    [h EXCEPT ![ra] = With(With(h[ra], "status", status), "timestamp", ts)]

(***************************************************************************)
(* Ledger: operations, each called by one caller at a time.                *)
(***************************************************************************)
\* MedChainBlockchain.create_drug_batch; the clock reads now when _new_tx reads utc_iso().
create_drug_batch(batch_id, drug_name, manufacturer, quantity, status, now) ==
    /\ TxCount < MaxTxs
    /\ LET payload == [batch_id |-> batch_id, drug_name |-> drug_name,
                       manufacturer |-> manufacturer, quantity |-> quantity,
                       status |-> status]
           pa == Len(heap) + 1
           h1 == Append(heap, payload)
           tx == _new_tx(h1, "CREATE_BATCH", pa, clock, now)
           ta == Len(h1) + 1
           h2 == Append(h1, tx)
           rec == NewRecord(h2, pa, tx.timestamp)
       IN  /\ heap' = rec[1]
           /\ pending_transactions' = Append(pending_transactions, ta)
           /\ world_state' = Put(world_state, batch_id, rec[2])
           /\ call' = CallRecord("create_drug_batch", batch_id, tx.tx_id, "none")
           /\ accepted' = accepted \cup {ta}
    /\ clock' = now
    /\ UNCHANGED <<caller, chain, sealed_calls, pc, frame>>

\* As update_batch_status, with the transaction created and queued before the
\* membership test.
UpdateQueuedBeforeTest(batch_id, status, now) ==
    /\ TxCount < MaxTxs
    /\ LET payload == [batch_id |-> batch_id, status |-> status]
           pa == Len(heap) + 1
           h1 == Append(heap, payload)
           tx == _new_tx(h1, "UPDATE_STATUS", pa, clock, now)
           ta == Len(h1) + 1
           h2 == Append(h1, tx)
       IN  /\ pending_transactions' = Append(pending_transactions, ta)
           /\ IF batch_id \notin DOMAIN world_state
              THEN /\ heap' = h2
                   /\ call' = CallRecord("update_batch_status", batch_id, <<>>, "ValueError")
                   /\ UNCHANGED accepted
              ELSE /\ heap' = SetStatus(h2, world_state[batch_id], status, tx.timestamp)
                   /\ call' = CallRecord("update_batch_status", batch_id, tx.tx_id, "none")
                   /\ accepted' = accepted \cup {ta}
    /\ clock' = now
    /\ UNCHANGED <<caller, chain, world_state, sealed_calls, pc, frame>>

\* MedChainBlockchain.update_batch_status
update_batch_status(batch_id, status, now) ==
    IF batch_id \notin DOMAIN world_state
    THEN /\ call' = CallRecord("update_batch_status", batch_id, <<>>, "ValueError")
         /\ UNCHANGED <<caller, chain, pending_transactions, world_state, heap, clock, sealed_calls,
                        accepted, pc, frame>>
    ELSE /\ TxCount < MaxTxs
         /\ LET payload == [batch_id |-> batch_id, status |-> status]
                pa == Len(heap) + 1
                h1 == Append(heap, payload)
                tx == _new_tx(h1, "UPDATE_STATUS", pa, clock, now)
                ta == Len(h1) + 1
                h2 == Append(h1, tx)
            IN  /\ heap' = SetStatus(h2, world_state[batch_id], status, tx.timestamp)
                /\ pending_transactions' = Append(pending_transactions, ta)
                /\ call' = CallRecord("update_batch_status", batch_id, tx.tx_id, "none")
                /\ accepted' = accepted \cup {ta}
         /\ clock' = now
         /\ UNCHANGED <<caller, chain, world_state, sealed_calls, pc, frame>>

\* As MinedBlock, with previous_hash read from chain[0] instead of chain[-1].
MinedBlockOnGenesis(h, ch, pending, now) ==
    BlockMine(h, NewBlock(h, Len(ch), pending, ch[1].hash, now))

\* As MinedBlock, with the block given the first pending transaction only
\* (transactions=self.pending_transactions[:1]).
MinedBlockOfFirstTx(h, ch, pending, now) ==
    BlockMine(h, NewBlock(h, Len(ch), SubSeq(pending, 1, 1), ch[Len(ch)].hash, now))

\* MedChainBlockchain._mine_pending: the block it builds and mines.
MinedBlock(h, ch, pending, now) ==
    BlockMine(h, NewBlock(h, Len(ch), pending, ch[Len(ch)].hash, now))

\* As mine, with the pending_transactions.clear() call left out.
MineWithoutClear ==
    IF pending_transactions = <<>>
    THEN /\ call' = CallRecord("mine", "", chain[Len(chain)].hash, "none")
         /\ UNCHANGED <<caller, chain, pending_transactions, world_state, heap, clock, sealed_calls,
                        accepted, pc, frame>>
    ELSE LET new_block == MinedBlock(heap, chain, pending_transactions, clock)
         IN  /\ chain' = Append(chain, new_block)
             /\ call' = CallRecord("mine", "", new_block.hash, "none")
             /\ sealed_calls' = sealed_calls + 1
             /\ UNCHANGED <<caller, pending_transactions, world_state, heap, clock, accepted,
                            pc, frame>>

\* As mine, without the early return on an empty pending pool.
MineAlways ==
    LET new_block == MinedBlock(heap, chain, pending_transactions, clock)
    IN  /\ Len(chain) <= MaxTxs
        /\ chain' = Append(chain, new_block)
        /\ pending_transactions' = <<>>
        /\ call' = CallRecord("mine", "", new_block.hash, "none")
        /\ sealed_calls' = sealed_calls + 1
        /\ UNCHANGED <<caller, world_state, heap, clock, accepted, pc, frame>>

\* As mine, with the new block stored over the last block (self.chain[-1] = new_block)
\* once the chain holds more than the genesis block.
MineOverTip ==
    IF pending_transactions = <<>>
    THEN /\ call' = CallRecord("mine", "", chain[Len(chain)].hash, "none")
         /\ UNCHANGED <<caller, chain, pending_transactions, world_state, heap, clock, sealed_calls,
                        accepted, pc, frame>>
    ELSE LET new_block == MinedBlock(heap, chain, pending_transactions, clock)
         IN  /\ chain' = IF Len(chain) = 1 THEN Append(chain, new_block)
                         ELSE [chain EXCEPT ![Len(chain)] = new_block]
             /\ pending_transactions' = <<>>
             /\ call' = CallRecord("mine", "", new_block.hash, "none")
             /\ sealed_calls' = sealed_calls + 1
             /\ UNCHANGED <<caller, world_state, heap, clock, accepted, pc, frame>>

\* MedChainBlockchain.mine / _mine_pending
mine ==
    IF pending_transactions = <<>>
    THEN /\ call' = CallRecord("mine", "", chain[Len(chain)].hash, "none")
         /\ UNCHANGED <<caller, chain, pending_transactions, world_state, heap, clock, sealed_calls,
                        accepted, pc, frame>>
    ELSE LET new_block == MinedBlock(heap, chain, pending_transactions, clock)
         IN  /\ chain' = Append(chain, new_block)
             /\ pending_transactions' = <<>>
             /\ call' = CallRecord("mine", "", new_block.hash, "none")
             /\ sealed_calls' = sealed_calls + 1
             /\ UNCHANGED <<caller, world_state, heap, clock, accepted, pc, frame>>

\* The clock advances on its own.
Tick ==
    /\ clock < MaxClock
    /\ clock' = clock + 1
    /\ UNCHANGED <<caller, chain, pending_transactions, world_state, heap, call, sealed_calls,
                   accepted, pc, frame>>

\* The clock readings a call that began at clock may see later in the call.
Later == {t \in clock..(clock + 1) : t <= MaxClock}

Next ==
    \/ Tick
    \/ \E batch_id \in BatchIds, drug_name \in DrugNames, manufacturer \in Manufacturers,
          quantity \in Quantities, status \in Statuses, now \in Later :
          create_drug_batch(batch_id, drug_name, manufacturer, quantity, status, now)
    \/ \E batch_id \in BatchIds, status \in Statuses, now \in Later :
          update_batch_status(batch_id, status, now)
    \/ mine

Spec == Init /\ [][Next]_vars

(***************************************************************************)
(* Ledger called from parallel threads.  The class holds no lock, so the   *)
(* statements of two calls interleave; under the interpreter lock one      *)
(* access to a shared list or dict (append, copy, clear, len, item read,   *)
(* item write) is one step.  Work on a call's own locals goes with the     *)
(* shared access that follows it.                                          *)
(***************************************************************************)
Goto(t, label) == pc' = [pc EXCEPT ![t] = label]

\* create_drug_batch, lines 156-164: payload, _new_tx, pending_transactions.append(tx)
t_create_append(t, batch_id, drug_name, manufacturer, quantity, status) ==
    /\ pc[t] = "idle"
    /\ TxCount < MaxTxs
    /\ LET payload == [batch_id |-> batch_id, drug_name |-> drug_name,
                       manufacturer |-> manufacturer, quantity |-> quantity,
                       status |-> status]
           pa == Len(heap) + 1
           h1 == Append(heap, payload)
           tx == _new_tx(h1, "CREATE_BATCH", pa, clock, clock)
       IN  /\ heap' = Append(h1, tx)
           /\ pending_transactions' = Append(pending_transactions, Len(h1) + 1)
           /\ frame' = [frame EXCEPT ![t] = [NoFrame EXCEPT !.batch_id = batch_id,
                                                           !.tx = Len(h1) + 1]]
    /\ Goto(t, "create_put")
    /\ UNCHANGED <<caller, chain, world_state, clock, call, sealed_calls, accepted>>

\* create_drug_batch, lines 167-169: world_state[batch_id] = {...}; return
t_create_put(t) ==
    /\ pc[t] = "create_put"
    /\ LET tx == heap[frame[t].tx]
           rec == NewRecord(heap, tx.payload, tx.timestamp)
       IN  /\ heap' = rec[1]
           /\ world_state' = Put(world_state, frame[t].batch_id, rec[2])
    /\ accepted' = accepted \cup {frame[t].tx}
    /\ frame' = [frame EXCEPT ![t] = NoFrame]
    /\ Goto(t, "idle")
    /\ UNCHANGED <<caller, chain, pending_transactions, clock, call, sealed_calls>>

\* update_batch_status, lines 172-173: the membership test; raises when absent
t_update_check(t, batch_id, status) ==
    /\ pc[t] = "idle"
    /\ TxCount < MaxTxs
    /\ IF batch_id \in DOMAIN world_state
       THEN /\ frame' = [frame EXCEPT ![t] = [NoFrame EXCEPT !.batch_id = batch_id,
                                                            !.status = status]]
            /\ Goto(t, "update_append")
       ELSE UNCHANGED <<pc, frame>>
    /\ UNCHANGED <<caller, chain, pending_transactions, world_state, heap, clock, call,
                   sealed_calls, accepted>>

\* update_batch_status, lines 175-177: payload, _new_tx, pending_transactions.append(tx)
t_update_append(t) ==
    /\ pc[t] = "update_append"
    /\ LET payload == [batch_id |-> frame[t].batch_id, status |-> frame[t].status]
           pa == Len(heap) + 1
           h1 == Append(heap, payload)
           tx == _new_tx(h1, "UPDATE_STATUS", pa, clock, clock)
       IN  /\ heap' = Append(h1, tx)
           /\ pending_transactions' = Append(pending_transactions, Len(h1) + 1)
           /\ frame' = [frame EXCEPT ![t].tx = Len(h1) + 1]
    /\ Goto(t, "update_status")
    /\ UNCHANGED <<caller, chain, world_state, clock, call, sealed_calls, accepted>>

\* update_batch_status, line 180: world_state[batch_id]["status"] = status
t_update_status(t) ==
    /\ pc[t] = "update_status"
    /\ LET ra == world_state[frame[t].batch_id]
       IN  heap' = [heap EXCEPT ![ra] = With(heap[ra], "status", frame[t].status)]
    /\ Goto(t, "update_timestamp")
    /\ UNCHANGED <<caller, chain, pending_transactions, world_state, clock, call, sealed_calls,
                   accepted, frame>>

\* update_batch_status, lines 181-182: world_state[batch_id]["timestamp"] = ...; return
t_update_timestamp(t) ==
    /\ pc[t] = "update_timestamp"
    /\ LET ra == world_state[frame[t].batch_id]
       IN  heap' = [heap EXCEPT ![ra] = With(heap[ra], "timestamp",
                                             heap[frame[t].tx].timestamp)]
    /\ accepted' = accepted \cup {frame[t].tx}
    /\ frame' = [frame EXCEPT ![t] = NoFrame]
    /\ Goto(t, "idle")
    /\ UNCHANGED <<caller, chain, pending_transactions, world_state, clock, call, sealed_calls>>

\* _mine_pending, lines 132-136: the emptiness test (returns the tip's hash when
\* empty), then index=len(self.chain)
t_mine_index(t) ==
    /\ pc[t] = "idle"
    /\ Len(chain) < MaxChain
    /\ pending_transactions # <<>>
    /\ frame' = [frame EXCEPT ![t] = [NoFrame EXCEPT !.index = Len(chain)]]
    /\ Goto(t, "mine_copy")
    /\ UNCHANGED <<caller, chain, pending_transactions, world_state, heap, clock, call,
                   sealed_calls, accepted>>

\* _mine_pending, line 137: transactions=self.pending_transactions.copy()
t_mine_copy(t) ==
    /\ pc[t] = "mine_copy"
    /\ frame' = [frame EXCEPT ![t].transactions = pending_transactions]
    /\ Goto(t, "mine_block")
    /\ UNCHANGED <<caller, chain, pending_transactions, world_state, heap, clock, call,
                   sealed_calls, accepted>>

\* _mine_pending, lines 138-140: previous_hash=self.chain[-1].hash, Block(...), mine()
t_mine_block(t) ==
    /\ pc[t] = "mine_block"
    /\ frame' = [frame EXCEPT ![t].new_block =
                    BlockMine(heap, NewBlock(heap, frame[t].index, frame[t].transactions,
                                             chain[Len(chain)].hash, clock))]
    /\ Goto(t, "mine_append")
    /\ UNCHANGED <<caller, chain, pending_transactions, world_state, heap, clock, call,
                   sealed_calls, accepted>>

\* _mine_pending, line 141: self.chain.append(new_block)
t_mine_append(t) ==
    /\ pc[t] = "mine_append"
    /\ chain' = Append(chain, frame[t].new_block)
    /\ Goto(t, "mine_clear")
    /\ UNCHANGED <<caller, pending_transactions, world_state, heap, clock, call, sealed_calls,
                   accepted, frame>>

\* _mine_pending, lines 142-143: self.pending_transactions.clear(); return
t_mine_clear(t) ==
    /\ pc[t] = "mine_clear"
    /\ pending_transactions' = <<>>
    /\ frame' = [frame EXCEPT ![t] = NoFrame]
    /\ Goto(t, "idle")
    /\ UNCHANGED <<caller, chain, world_state, heap, clock, call, sealed_calls, accepted>>

NextConc ==
    \/ Tick
    \/ \E t \in Threads :
        \/ \E batch_id \in BatchIds, drug_name \in DrugNames,
              manufacturer \in Manufacturers, quantity \in Quantities,
              status \in Statuses :
              t_create_append(t, batch_id, drug_name, manufacturer, quantity, status)
        \/ t_create_put(t)
        \/ \E batch_id \in BatchIds, status \in Statuses : t_update_check(t, batch_id, status)
        \/ t_update_append(t)
        \/ t_update_status(t)
        \/ t_update_timestamp(t)
        \/ t_mine_index(t)
        \/ t_mine_copy(t)
        \/ t_mine_block(t)
        \/ t_mine_append(t)
        \/ t_mine_clear(t)

SpecConc == Init /\ [][NextConc]_vars

(***************************************************************************)
(* Views.  blockchain_view() and world_state_view() hand Python objects to  *)
(* the caller, who may write to them: a list or dict the ledger also holds  *)
(* is changed for the ledger too.  The caller keeps the value of the last   *)
(* view call in one variable, so a new view replaces the one held before.   *)
(***************************************************************************)
\* The ledger's own state.
ledger == <<chain, pending_transactions, world_state, heap, clock, sealed_calls, accepted,
            pc, frame>>

\* Block.summary of the block at position i: a new dict of the block's fields.  Its
\* "transactions" item is self.transactions, the list object of the block: written
\* as the position of the block that owns the list.
summary(ch, i) ==
    [index |-> ch[i].index,
     timestamp |-> ch[i].timestamp,
     hash |-> ch[i].hash,
     previous_hash |-> ch[i].previous_hash,
     transactions |-> i]

\* MedChainBlockchain.blockchain_view
blockchain_view ==
    /\ chain_view' = [i \in DOMAIN chain |-> summary(chain, i)]
    /\ state_view' = <<>>
    /\ caller_heap' = <<>>
    /\ call' = CallRecord("blockchain_view", "", <<>>, "none")
    /\ UNCHANGED <<ledger, mutations>>

\* The string of a code: what json.loads reads back from the characters.
CodeStr == [c \in 1..14 |-> CHOOSE s \in DOMAIN StrCode : StrCode[s] = c]

\* The batch_ids in the order the world state dict is serialized in.
KeyOrder == <<"batch001", "batch002">>

\* json.dumps(self.world_state): for each key its characters and the serialized record.
json_dumps(ws, h) ==
    LET keys == SelectSeq(KeyOrder, LAMBDA k : k \in DOMAIN ws)
    IN  [n \in DOMAIN keys |-> <<StrCode[keys[n]], DumpDict(h[ws[keys[n]]], 1)>>]

\* json.loads of a serialized value: a number stays a number, characters
\* become a string.
LoadValue(key, c) == IF key \in {"quantity", "timestamp"} THEN c ELSE CodeStr[c]

\* json.loads of a serialized flat dict: a new dict.
RECURSIVE LoadDict(_, _)
LoadDict(tokens, i) ==
    IF i > Len(tokens) THEN <<>>
    ELSE LET key == CodeStr[tokens[i]]
         IN  With(LoadDict(tokens, i + 2), key, LoadValue(key, tokens[i + 1]))

\* json.loads of the serialized world state: new record dicts, and a new dict from
\* batch_id to a reference to its record.  A reference names the heap the object
\* is in (own: made for the caller) and its address there.
json_loads(dumped) ==
    <<[k \in {CodeStr[dumped[n][1]] : n \in DOMAIN dumped} |->
          [own |-> TRUE, addr |-> CHOOSE n \in DOMAIN dumped : CodeStr[dumped[n][1]] = k]],
      [n \in DOMAIN dumped |-> LoadDict(dumped[n][2], 1)]>>

\* As WorldStateCopy, with a copy of the outer dict only: dict(self.world_state).
WorldStateShallowCopy(ws, h) ==
    <<[k \in DOMAIN ws |-> [own |-> FALSE, addr |-> ws[k]]], <<>>>>

\* json.loads(json.dumps(self.world_state))
WorldStateCopy(ws, h) == json_loads(json_dumps(ws, h))

\* MedChainBlockchain.world_state_view
world_state_view ==
    /\ LET copy == WorldStateCopy(world_state, heap)
       IN  /\ state_view' = copy[1]
           /\ caller_heap' = copy[2]
    /\ chain_view' = <<>>
    /\ call' = CallRecord("world_state_view", "", <<>>, "none")
    /\ UNCHANGED <<ledger, mutations>>

\* The record a reference of the caller leads to.
Deref(r) == IF r.own THEN caller_heap[r.addr] ELSE heap[r.addr]

\* A write of the caller to the dict a reference leads to.
WriteRecord(r, d) ==
    IF r.own
    THEN /\ caller_heap' = [caller_heap EXCEPT ![r.addr] = d]
         /\ UNCHANGED heap
    ELSE /\ heap' = [heap EXCEPT ![r.addr] = d]
         /\ UNCHANGED caller_heap

\* Caller: view[i]["hash"] = "0" * len on a summary of blockchain_view().
view_summary_set(i) ==
    /\ mutations < MaxMutations
    /\ i \in DOMAIN chain_view
    /\ chain_view' = [chain_view EXCEPT ![i].hash = Zeros(HashLen)]
    /\ mutations' = mutations + 1
    /\ call' = CallRecord("mutate_chain_view", "", <<>>, "none")
    /\ UNCHANGED <<ledger, state_view, caller_heap>>

\* Caller: view[i]["transactions"].pop() on a summary of blockchain_view().
view_transactions_pop(i) ==
    /\ mutations < MaxMutations
    /\ i \in DOMAIN chain_view
    /\ LET b == chain_view[i].transactions
       IN  /\ chain[b].transactions # <<>>
           /\ chain' = [chain EXCEPT ![b].transactions = SubSeq(@, 1, Len(@) - 1)]
    /\ mutations' = mutations + 1
    /\ call' = CallRecord("mutate_chain_view", "", <<>>, "none")
    /\ UNCHANGED <<pending_transactions, world_state, heap, clock, sealed_calls, accepted,
                   pc, frame, chain_view, state_view, caller_heap>>

\* Caller: view[i]["transactions"][n]["timestamp"] = ts on a summary.
view_tx_set(i, n, ts) ==
    /\ mutations < MaxMutations
    /\ i \in DOMAIN chain_view
    /\ LET b == chain_view[i].transactions
       IN  /\ n \in DOMAIN chain[b].transactions
           /\ heap' = [heap EXCEPT ![chain[b].transactions[n]].timestamp = ts]
    /\ mutations' = mutations + 1
    /\ call' = CallRecord("mutate_chain_view", "", <<>>, "none")
    /\ UNCHANGED <<chain, pending_transactions, world_state, clock, sealed_calls, accepted,
                   pc, frame, chain_view, state_view, caller_heap>>

\* Caller: view[i]["transactions"][n]["payload"]["status"] = status on a summary.
view_payload_set(i, n, status) ==
    /\ mutations < MaxMutations
    /\ i \in DOMAIN chain_view
    /\ LET b == chain_view[i].transactions
       IN  /\ n \in DOMAIN chain[b].transactions
           /\ heap' = [heap EXCEPT ![heap[chain[b].transactions[n]].payload].status = status]
    /\ mutations' = mutations + 1
    /\ call' = CallRecord("mutate_chain_view", "", <<>>, "none")
    /\ UNCHANGED <<chain, pending_transactions, world_state, clock, sealed_calls, accepted,
                   pc, frame, chain_view, state_view, caller_heap>>

\* Caller: del state[k] on the dict of world_state_view().
state_key_del(k) ==
    /\ mutations < MaxMutations
    /\ k \in DOMAIN state_view
    /\ state_view' = [j \in DOMAIN state_view \ {k} |-> state_view[j]]
    /\ mutations' = mutations + 1
    /\ call' = CallRecord("mutate_state_view", k, <<>>, "none")
    /\ UNCHANGED <<ledger, chain_view, caller_heap>>

\* Caller: state[k2] = state[k] on the dict of world_state_view().
state_key_put(k2, k) ==
    /\ mutations < MaxMutations
    /\ k \in DOMAIN state_view
    /\ k2 # k
    /\ state_view' = Put(state_view, k2, state_view[k])
    /\ mutations' = mutations + 1
    /\ call' = CallRecord("mutate_state_view", k2, <<>>, "none")
    /\ UNCHANGED <<ledger, chain_view, caller_heap>>

\* Caller: state[k]["status"] = status on a record of world_state_view().
state_field_set(k, status) ==
    /\ mutations < MaxMutations
    /\ k \in DOMAIN state_view
    /\ WriteRecord(state_view[k], With(Deref(state_view[k]), "status", status))
    /\ mutations' = mutations + 1
    /\ call' = CallRecord("mutate_state_view", k, <<>>, "none")
    /\ UNCHANGED <<chain, pending_transactions, world_state, clock, sealed_calls, accepted,
                   pc, frame, chain_view, state_view>>

\* Caller: del state[k]["timestamp"] on a record of world_state_view().
state_field_del(k) ==
    /\ mutations < MaxMutations
    /\ k \in DOMAIN state_view
    /\ LET d == Deref(state_view[k])
       IN  /\ "timestamp" \in DOMAIN d
           /\ WriteRecord(state_view[k], [f \in DOMAIN d \ {"timestamp"} |-> d[f]])
    /\ mutations' = mutations + 1
    /\ call' = CallRecord("mutate_state_view", k, <<>>, "none")
    /\ UNCHANGED <<chain, pending_transactions, world_state, clock, sealed_calls, accepted,
                   pc, frame, chain_view, state_view>>

\* The ledger called by one caller who also asks for views and writes to them.
NextView ==
    \/ Next
    \/ blockchain_view
    \/ world_state_view
    \/ \E i \in 1..MaxChain : view_summary_set(i)
    \/ \E i \in 1..MaxChain : view_transactions_pop(i)
    \/ \E i \in 1..MaxChain, n \in 1..MaxTxs, ts \in 0..MaxClock : view_tx_set(i, n, ts)
    \/ \E i \in 1..MaxChain, n \in 1..MaxTxs, status \in Statuses : view_payload_set(i, n, status)
    \/ \E k \in BatchIds : state_key_del(k)
    \/ \E k2 \in BatchIds, k \in BatchIds : state_key_put(k2, k)
    \/ \E k \in BatchIds, status \in Statuses : state_field_set(k, status)
    \/ \E k \in BatchIds : state_field_del(k)

SpecView == Init /\ [][NextView]_vars

(***************************************************************************)
(* Properties.                                                             *)
(***************************************************************************)
\* The transactions of the blocks of the chain, in chain order.
RECURSIVE ChainTxs(_)
ChainTxs(n) == IF n = 0 THEN <<>> ELSE ChainTxs(n - 1) \o chain[n].transactions

Range(s) == {s[i] : i \in DOMAIN s}

InPending(a) == a \in Range(pending_transactions)
InChain(a) == \E i \in DOMAIN chain : a \in Range(chain[i].transactions)

\* The step is a call of operation op on the ledger.
IsCall(op) == call'.flip # call.flip /\ call'.op = op

\* C1: every block after the genesis block carries the hash of the block before it
\* as previous_hash, and its position in the chain as index.
C1_ChainLinked ==
    \A i \in 2..Len(chain) :
        /\ chain[i].previous_hash = chain[i - 1].hash
        /\ chain[i].index = i - 1

\* Two blocks have been mined on top of the genesis block.
C1_Witness == Len(chain) >= 3 /\ chain[3].previous_hash = chain[2].hash

\* C2: the stored hash of every block, the genesis block included, is the digest of
\* the block's fields as they are stored now; a later submission or seal does not
\* make it stale.
C2_HashesCurrent ==
    \A i \in DOMAIN chain : chain[i].hash = _calculate_hash(heap, chain[i])

\* A batch created in a sealed block has been updated since.
C2_Witness ==
    \E i \in DOMAIN chain : \E a \in Range(chain[i].transactions) :
        /\ heap[a].type = "CREATE_BATCH"
        /\ \E u \in Range(pending_transactions) :
              /\ heap[u].type = "UPDATE_STATUS"
              /\ heap[heap[u].payload].batch_id = heap[heap[a].payload].batch_id
              /\ heap[heap[u].payload].status # heap[heap[a].payload].status

\* C3: create_drug_batch with a batch_id that is already in the world state fails
\* with DuplicateKey; it creates no transaction and leaves the pending pool, the
\* record of that batch_id and the chain as they were.
C3_DuplicateCreateRejected ==
    [][(IsCall("create_drug_batch") /\ call'.batch_id \in DOMAIN world_state)
        => /\ call'.raised = "DuplicateKey"
           /\ TxCount' = TxCount
           /\ pending_transactions' = pending_transactions
           /\ world_state' = world_state
           /\ heap'[world_state[call'.batch_id]] = heap[world_state[call'.batch_id]]
           /\ chain' = chain]_vars

\* C4: update_batch_status with a batch_id that is not in the world state raises
\* before any transaction is created; the pending pool, the world state, the chain
\* and every dict are as before the call.
C4_UnknownUpdateRejected ==
    [][(IsCall("update_batch_status") /\ call'.batch_id \notin DOMAIN world_state)
        => /\ call'.raised = "ValueError"
           /\ UNCHANGED <<pending_transactions, world_state, chain, heap>>]_vars

\* An update of a batch that was never created has been refused, while another
\* batch is in the world state.
C4_Witness ==
    /\ call.op = "update_batch_status"
    /\ call.raised = "ValueError"
    /\ call.batch_id \notin DOMAIN world_state
    /\ DOMAIN world_state # {}

\* C5: with parallel callers, once every call has returned, each transaction whose
\* submission returned is in a block of the chain or still in the pending pool.
C5_NoAcceptedTxLost ==
    (\A t \in Threads : pc[t] = "idle")
        => \A a \in accepted : InPending(a) \/ InChain(a)

\* C6: with parallel callers, no two blocks of the chain carry the same index, and
\* no transaction is in two blocks.
C6_SealsSerialized ==
    \A i, j \in DOMAIN chain :
        i < j => /\ chain[i].index # chain[j].index
                 /\ Range(chain[i].transactions) \cap Range(chain[j].transactions) = {}

\* C7: mine with a non-empty pending pool appends one block, whose index is the
\* length of the chain before, whose previous_hash is the hash of the tip before and
\* whose transactions are the pending pool in order; it empties the pending pool and
\* returns the block's hash.  The chain holds one block more than the number of such
\* calls.
C7_SealAppendsOneBlock ==
    /\ [](Len(chain) = 1 + sealed_calls)
    /\ [][(IsCall("mine") /\ pending_transactions # <<>>)
           => /\ Len(chain') = Len(chain) + 1
              /\ SubSeq(chain', 1, Len(chain)) = chain
              /\ chain'[Len(chain')].index = Len(chain)
              /\ chain'[Len(chain')].previous_hash = chain[Len(chain)].hash
              /\ chain'[Len(chain')].transactions = pending_transactions
              /\ pending_transactions' = <<>>
              /\ call'.ret = chain'[Len(chain')].hash]_vars

\* A block of two transactions has just been mined.
C7_Witness ==
    /\ call.op = "mine"
    /\ Len(chain) >= 2
    /\ Len(chain[Len(chain)].transactions) >= 2
    /\ pending_transactions = <<>>

\* C8: mine with an empty pending pool changes neither the chain, the pending pool
\* nor the world state, and returns the hash of the tip.
C8_EmptySealNoOp ==
    [][(IsCall("mine") /\ pending_transactions = <<>>)
        => /\ UNCHANGED <<chain, pending_transactions, world_state, heap>>
           /\ call'.ret = chain[Len(chain)].hash]_vars

\* mine has been called on a ledger that never held a transaction: it returned the
\* hash of the genesis block.
C8_Witness ==
    /\ call.op = "mine"
    /\ sealed_calls = 0
    /\ pending_transactions = <<>>
    /\ Len(chain) = 1
    /\ call.ret = chain[1].hash

\* C9: right after construction the chain is one block with index 0, no
\* transactions and the sentinel previous_hash, already mined; the pending pool and
\* the world state are empty.
C9_Genesis ==
    call.op = "__init__"
        => /\ Len(chain) = 1
           /\ chain[1].index = 0
           /\ chain[1].transactions = <<>>
           /\ chain[1].previous_hash = Zeros(HashLen)
           /\ StartsWith(chain[1].hash, Zeros(DIFFICULTY))
           /\ pending_transactions = <<>>
           /\ DOMAIN world_state = {}

\* A ledger constructed at the later clock reading, on which nothing was called.
C9_Witness == call.op = "__init__" /\ clock = MaxClock /\ chain[1].timestamp = utc_iso(MaxClock)

\* The batch_ids for which a CREATE_BATCH transaction is in the pending pool or in a block.
CreatedKeys ==
    {heap[heap[a].payload].batch_id :
        a \in {x \in Range(pending_transactions) \cup Range(ChainTxs(Len(chain))) :
                  heap[x].type = "CREATE_BATCH"}}

\* C10: a batch_id is in the world state exactly when a CREATE_BATCH transaction for
\* it is in the pending pool or in a block, and no step removes one.
C10_WorldStateKeys ==
    /\ [](DOMAIN world_state = CreatedKeys)
    /\ [][DOMAIN world_state \subseteq DOMAIN world_state']_vars

\* One batch is in the world state with its creation sealed, the other is not.
C10_Witness ==
    /\ "batch001" \in DOMAIN world_state
    /\ "batch002" \notin DOMAIN world_state
    /\ Len(chain) >= 2

\* C11: the hash of every block begins with DIFFICULTY zero characters, and no
\* smaller nonce, put in the block's place and hashed, gives such a hash (the
\* hash of the block with nonce n is HashFields of it and the digest of the
\* fields after the nonce, as in _calculate_hash).
C11_MinimalNonce ==
    [](\A i \in DOMAIN chain :
          /\ StartsWith(chain[i].hash, Zeros(DIFFICULTY))
          /\ LET tail == TailDigest(heap, chain[i])
             IN  \A n \in 0..(chain[i].nonce - 1) :
                    ~StartsWith(HashFields([chain[i] EXCEPT !.nonce = n], tail),
                                Zeros(DIFFICULTY)))

\* The chain holds a block that needed a search (nonce above 0) and a block whose
\* first hash, at nonce 0, already had the prefix.
C11_Witness ==
    /\ \E i \in DOMAIN chain : chain[i].nonce > 0 /\ chain[i].transactions # <<>>
    /\ \E i \in DOMAIN chain : chain[i].nonce = 0

\* C12: a seal whose search finds no nonce within the guard of MaxIterations
\* reports MiningExhausted, appends no block and leaves the pending pool as it was.
C12_MiningGuarded ==
    [][(/\ IsCall("mine")
        /\ pending_transactions # <<>>
        /\ MinedBlock(heap, chain, pending_transactions, clock).nonce > MaxIterations)
       => (/\ call'.raised = "MiningExhausted"
           /\ chain' = chain
           /\ pending_transactions' = pending_transactions)]_vars

History == ChainTxs(Len(chain)) \o pending_transactions

\* C16: no two transactions held by the ledger, in the pending pool or in a
\* block, carry the same tx_id.
C16_TxIdsUnique ==
    \A i, j \in DOMAIN History :
        heap[History[i]].tx_id = heap[History[j]].tx_id => i = j

\* C18: every accepted transaction is in exactly one place, the pending pool or
\* one block, exactly once; the pending pool holds exactly the transactions
\* accepted since the last seal that made a block; and a transaction that is in
\* a block stays at its place in that block.
C18_OnePlace ==
    /\ [](\A a \in accepted :
             Cardinality({i \in DOMAIN History : History[i] = a}) = 1)
    /\ [](\A a \in Range(History) : a \in accepted)
    /\ [][\A i \in DOMAIN chain : \A a \in Range(chain[i].transactions) :
             /\ i \in DOMAIN chain'
             /\ a \in Range(chain'[i].transactions)
             /\ ~ (a \in Range(pending_transactions'))]_vars
    /\ [][\A a \in Range(pending_transactions) :
             IF IsCall("mine")
             THEN a \in Range(chain'[Len(chain')].transactions) /\ Len(chain') = Len(chain) + 1
             ELSE a \in Range(pending_transactions')]_vars

\* One accepted transaction is in a block and another is in the pending pool.
C18_Witness ==
    /\ \E a \in accepted : InChain(a)
    /\ \E a \in accepted : InPending(a)

\* C20: in the history (the transactions of the blocks in chain order, then the
\* pending pool) every UPDATE_STATUS transaction for a batch_id comes after a
\* CREATE_BATCH transaction for the same batch_id.
C20_UpdateAfterCreate ==
    \A j \in DOMAIN History :
        heap[History[j]].type = "UPDATE_STATUS"
           => \E i \in 1..(j - 1) :
                 /\ heap[History[i]].type = "CREATE_BATCH"
                 /\ heap[heap[History[i]].payload].batch_id
                       = heap[heap[History[j]].payload].batch_id

\* The create of a key is in one block and an update of that key in the next.
C20_Witness ==
    /\ Len(chain) = 3
    /\ heap[chain[2].transactions[1]].type = "CREATE_BATCH"
    /\ heap[chain[3].transactions[1]].type = "UPDATE_STATUS"
    /\ heap[heap[chain[2].transactions[1]].payload].batch_id
          = heap[heap[chain[3].transactions[1]].payload].batch_id

\* The dicts a block leads to: its transactions and their payloads.
BlockObjects(i) ==
    Range(chain[i].transactions) \cup {heap[a].payload : a \in Range(chain[i].transactions)}

\* C13: a write of the caller to anything reachable from the value blockchain_view
\* returned leaves the blocks, their transactions and their payloads as they were,
\* and leaves every stored hash equal to the hash recomputed from the block.
C13_ChainViewIsolated ==
    [][IsCall("mutate_chain_view")
       => /\ chain' = chain
          /\ \A i \in DOMAIN chain : \A a \in BlockObjects(i) : heap'[a] = heap[a]
          /\ \A i \in DOMAIN chain' : chain'[i].hash = _calculate_hash(heap', chain'[i])]_vars

\* C14: world_state_view changes nothing of the ledger and returns a dict with the
\* keys of the world state and records equal to the ledger's; a write of the caller
\* to that dict or to a record in it changes nothing of the ledger, so that a later
\* world_state_view call returns what it would have returned without the write.
C14_StateViewIsolated ==
    /\ [][IsCall("world_state_view")
          => /\ UNCHANGED ledger
             /\ DOMAIN state_view' = DOMAIN world_state
             /\ \A k \in DOMAIN world_state :
                   IF state_view'[k].own
                   THEN caller_heap'[state_view'[k].addr] = heap[world_state[k]]
                   ELSE heap'[state_view'[k].addr] = heap[world_state[k]]]_vars
    /\ [][IsCall("mutate_state_view") => UNCHANGED ledger]_vars

\* The caller has changed the status in a record of the view it holds, and the
\* ledger's record of that key still has the status it had.
C14_Witness ==
    /\ call.op = "mutate_state_view"
    /\ call.batch_id \in DOMAIN state_view
    /\ call.batch_id \in DOMAIN world_state
    /\ Deref(state_view[call.batch_id]).status # heap[world_state[call.batch_id]].status

\* Some stored block does not carry the hash of the block before it, or its hash
\* is not the hash recomputed from its fields.
Tampered ==
    \E i \in DOMAIN chain :
        \/ chain[i].hash # _calculate_hash(heap, chain[i])
        \/ i > 1 /\ chain[i].previous_hash # chain[i - 1].hash

\* C17: when the chain is tampered with, the ledger has an operation that reports
\* ChainIntegrityViolation or InvalidPreviousHash to its caller.
C17_TamperingReported ==
    Tampered
       => ENABLED (NextView /\ call'.raised \in {"ChainIntegrityViolation", "InvalidPreviousHash"})

\* The chain before the step is a prefix of the chain after it, block for block,
\* and the transactions and payloads of its blocks are as they were.
ChainKept ==
    /\ Len(chain') >= Len(chain)
    /\ \A i \in DOMAIN chain :
          /\ chain'[i] = chain[i]
          /\ \A a \in BlockObjects(i) : heap'[a] = heap[a]

\* C19: every call of create_drug_batch, update_batch_status, mine, blockchain_view
\* and world_state_view, and every tick of the clock, keeps the chain it found as
\* a prefix of the chain it leaves, with every block, transaction and payload
\* unchanged; create_drug_batch and update_batch_status leave the chain as it was.
C19_ChainAppendOnly ==
    /\ [][~ (IsCall("mutate_chain_view") \/ IsCall("mutate_state_view")) => ChainKept]_vars
    /\ [][(IsCall("create_drug_batch") \/ IsCall("update_batch_status")) => chain' = chain]_vars

\* An update of a key has been accepted whose create is in a block, the chain holds
\* three blocks and the caller holds a view of them.
C19_Witness ==
    /\ Len(chain) = 3
    /\ Len(chain_view) = 3
    /\ call.op = "blockchain_view"
    /\ heap[chain[2].transactions[1]].type = "CREATE_BATCH"
    /\ heap[chain[3].transactions[1]].type = "UPDATE_STATUS"
    /\ mutations = 0

\* The world state by value: batch_id -> the record dict it leads to.
WorldStateValue == [k \in DOMAIN world_state |-> heap[world_state[k]]]

\* One transaction applied to a mapping from batch_id to record: a CREATE_BATCH
\* sets the record of its key to its payload and the transaction's timestamp, an
\* UPDATE_STATUS overwrites status and timestamp in the record of its key.
Apply(m, tx, payload) ==
    IF tx.type = "CREATE_BATCH"
    THEN Put(m, payload.batch_id, With(payload, "timestamp", tx.timestamp))
    ELSE IF payload.batch_id \in DOMAIN m
         THEN Put(m, payload.batch_id,
                  With(With(m[payload.batch_id], "status", payload.status),
                       "timestamp", tx.timestamp))
         ELSE m

\* The first n transactions of txs replayed in order from the empty mapping.
RECURSIVE Replay(_, _)
Replay(txs, n) ==
    IF n = 0 THEN <<>>
    ELSE Apply(Replay(txs, n - 1), heap[txs[n]], heap[heap[txs[n]].payload])

\* C21: the world state, read by value, is what replaying the transactions of the
\* blocks in chain order and then the pending pool gives from the empty mapping;
\* and a mine call leaves the world state and its records as they were.
C21_WorldStateIsReplay ==
    /\ [](WorldStateValue = Replay(History, Len(History)))
    /\ [][IsCall("mine")
          => /\ world_state' = world_state
             /\ \A k \in DOMAIN world_state : heap'[world_state[k]] = heap[world_state[k]]]_vars

\* The create of a key is in a block, an update of it that changed its status and
\* its timestamp is in the pending pool, and the record shows the update.
C21_Witness ==
    /\ Len(chain) = 2
    /\ Len(pending_transactions) = 1
    /\ LET c == heap[chain[2].transactions[1]]
           u == heap[pending_transactions[1]]
           k == heap[u.payload].batch_id
       IN  /\ c.type = "CREATE_BATCH"
           /\ u.type = "UPDATE_STATUS"
           /\ heap[c.payload].status # heap[u.payload].status
           /\ c.timestamp # u.timestamp
           /\ heap[world_state[k]].status = heap[u.payload].status
           /\ heap[world_state[k]].timestamp = u.timestamp

====
